---- MODULE Spec2Model ----
(***************************************************************************)
(* delPack (main.go): scan a directory tree for directories whose base     *)
(* name is a target, size them with a pool of workers, ask for             *)
(* confirmation and delete them with a second pool of workers.             *)
(*                                                                         *)
(* A path is a node of a finite tree; node 1 is the root path (-path).     *)
(* A tree with no node stands for a root path that does not exist.         *)
(***************************************************************************)
EXTENDS Integers, Sequences, FiniteSets, TLC

\* ------------------------------------------------------------------ bounds
NumNodes == 4        \* nodes of the directory tree, root included
MaxWorkers == 2      \* largest value of -workers
MaxLines == 2        \* most lines of a targets file
MaxTokens == 2       \* most tokens of a line of a targets file
MaxLineLen == 3      \* characters of the answer typed at the prompt

\* ------------------------------------------------------- the filesystem
Names == {"dist", "node_modules", "src"}

\* os.ReadDir and filepath.Walk list a directory sorted by file name.
NameRank(s) == CASE s = "dist" -> 1 [] s = "node_modules" -> 2 [] OTHER -> 3

\* the root path does not exist
NoRoot == [n |-> 0, parent |-> <<>>, isDir |-> <<>>, name |-> <<>>, ok |-> <<>>]

Children(t, i) == {c \in 1..t.n : t.parent[c] = i}

\* The trees of k nodes.  parent[i] is the directory that holds entry i
\* (0 for the root), numbered after it.
ParentMaps(k) ==
    {p \in [1..k -> 0..k] : \A i \in 1..k : IF i = 1 THEN p[i] = 0 ELSE p[i] \in 1..(i - 1)}

\* only a directory has entries
KindMaps(k, p) == {d \in [1..k -> BOOLEAN] : \A i \in 2..k : d[p[i]]}

\* the entries of one directory have distinct names and are numbered in
\* the order a listing returns them
NameMaps(k, p) ==
    {nm \in [1..k -> Names] :
        \A i, j \in 2..k : (i < j /\ p[i] = p[j]) => NameRank(nm[i]) < NameRank(nm[j])}

\* ok[i] = FALSE: listing directory i fails (permission denied), or lstat of
\* the non-directory i fails; at most one entry of a tree is inaccessible
OkMaps(k) == {o \in [1..k -> BOOLEAN] : \A i, j \in 1..k : (~o[i] /\ ~o[j]) => i = j}

\* t is a tree of at most NumNodes nodes
IsTree(t) ==
    \E k \in 0..NumNodes : \E p \in ParentMaps(k) : \E d \in KindMaps(k, p) :
        \E nm \in NameMaps(k, p) : \E o \in OkMaps(k) :
            t = [n |-> k, parent |-> p, isDir |-> d, name |-> nm, ok |-> o]

RECURSIVE IsUnder(_, _, _)
\* c is a or lies beneath a
IsUnder(t, c, a) ==
    IF c = a THEN TRUE
    ELSE IF c = 0 THEN FALSE
    ELSE IsUnder(t, t.parent[c], a)

RECURSIVE Pow2(_)
Pow2(e) == IF e = 0 THEN 1 ELSE 2 * Pow2(e - 1)

\* info.Size() of a non-directory: distinct files have sizes whose sums
\* tell the sets of files apart
FileSize(i) == Pow2(i - 1)

\* the nodes of s in increasing order
RECURSIVE SortedSeq(_)
SortedSeq(s) ==
    IF s = {} THEN <<>>
    ELSE LET m == CHOOSE x \in s : \A y \in s : x <= y
         IN  <<m>> \o SortedSeq(s \ {m})

\* ------------------------------------------------------- the targets file
\* A line of the targets file is a sequence of tokens: a blank " ", the
\* comment mark "#", or a word (a directory name).
RECURSIVE TrimLeft(_)
TrimLeft(l) == IF l # <<>> /\ Head(l) = " " THEN TrimLeft(Tail(l)) ELSE l

RECURSIVE TrimRight(_)
TrimRight(l) ==
    IF l # <<>> /\ l[Len(l)] = " " THEN TrimRight(SubSeq(l, 1, Len(l) - 1)) ELSE l

\* strings.TrimSpace
TrimSpace(l) == TrimRight(TrimLeft(l))

\* strings.HasPrefix(line, "#")
HasPrefix(l, tok) == l # <<>> /\ Head(l) = tok

\* the scanner loop of readTargets: the trimmed lines that are neither
\* empty nor comments, in file order
RECURSIVE ScanLines(_)
ScanLines(ls) ==
    IF ls = <<>> THEN <<>>
    ELSE LET line == TrimSpace(Head(ls))
         IN  IF line # <<>> /\ ~HasPrefix(line, "#")
             THEN <<line>> \o ScanLines(Tail(ls))
             ELSE ScanLines(Tail(ls))

\* a variant without the len(targets) == 0 check
readTargetsUnchecked(f) ==
    IF ~f.readable THEN [targets |-> <<>>, err |-> "open"]
    ELSE IF f.scanErr THEN [targets |-> <<>>, err |-> "read"]
    ELSE [targets |-> ScanLines(f.lines), err |-> "nil"]

\* readTargets: [targets, err]; err when the file cannot be opened, when
\* the scanner stops on a read error, or when the file holds no valid target
readTargets(f) ==
    IF ~f.readable THEN [targets |-> <<>>, err |-> "open"]
    ELSE LET ts == ScanLines(f.lines)
         IN  IF f.scanErr THEN [targets |-> <<>>, err |-> "read"]
             ELSE IF Len(ts) = 0 THEN [targets |-> <<>>, err |-> "novalid"]
             ELSE [targets |-> ts, err |-> "nil"]

\* a variant whose loop stops after the first target
MatchesFirstOnly(name, ts) == ts # <<>> /\ ts[1] = <<name>>

\* the for loop over targets in the WalkDir callback: name == target
Matches(name, ts) == \E k \in 1..Len(ts) : ts[k] = <<name>>

\* ------------------------------------------------------------- dirSize
\* the filepath.Walk callback of dirSize: what it adds to size and what it
\* returns, given the error Walk passes in and the entry
SizeWalkFn(t, i, walkErr) ==
    IF walkErr # "nil" THEN [add |-> 0, ret |-> "nil"]
    ELSE IF ~t.isDir[i] THEN [add |-> FileSize(i), ret |-> "nil"]
    ELSE [add |-> 0, ret |-> "nil"]

RECURSIVE SizeWalk(_, _)
RECURSIVE SizeWalkEntries(_, _, _)
\* filepath.Walk below entry i: the bytes the callback added and the error
\* Walk returns (the first non-nil return of the callback)
SizeWalk(t, i) ==
    IF ~t.isDir[i]
    THEN LET r == SizeWalkFn(t, i, IF t.ok[i] THEN "nil" ELSE "lstat")
         IN  [size |-> r.add, err |-> r.ret]
    ELSE IF ~t.ok[i]
    THEN LET r == SizeWalkFn(t, i, "readdir")
         IN  [size |-> r.add, err |-> r.ret]
    ELSE LET r == SizeWalkFn(t, i, "nil")
         IN  IF r.ret # "nil" THEN [size |-> r.add, err |-> r.ret]
             ELSE SizeWalkEntries(t, SortedSeq(Children(t, i)), r.add)

SizeWalkEntries(t, cs, acc) ==
    IF cs = <<>> THEN [size |-> acc, err |-> "nil"]
    ELSE LET r == SizeWalk(t, Head(cs))
         IN  IF r.err # "nil" THEN [size |-> acc + r.size, err |-> r.err]
             ELSE SizeWalkEntries(t, Tail(cs), acc + r.size)

dirSize(t, path) == SizeWalk(t, path)

Subtree(t, c) == {x \in 1..t.n : IsUnder(t, x, c)}

\* ---------------------------------------------------------------- state
VARIABLES
    fs,                 \* the directory tree below -path (never written before the deletion phase)
    removed,            \* the nodes os.RemoveAll has removed
    targetsFile,        \* the content of the -targets file
    dryRun, skipPrompt, verbose, maxWorkers,   \* the flags
    pc,                 \* where main is
    sendIdx,            \* items main's range loop has sent to the current pool
    targets,            \* the target names read from the file
    walkStack,          \* the entries filepath.WalkDir has still to visit, next first
    visited,            \* the entries the WalkDir callback was called on, in order
    dirsToDelete, scanErrors,
    workChan, workClosed, resultsChan, resultsClosed,
    sizeWorker,         \* per size worker: where it is and the path it holds
    wg,                 \* the sync.WaitGroup counter
    waiter,             \* the goroutine that waits for wg and closes the results channel
    totalSize, dirSizes, sizeErrors,
    stdinLine, response,
    deleteWorkChan, deleteWorkClosed, deleteResultsChan, deleteResultsClosed,
    delWorker,          \* per deletion worker: where it is and the index it holds
    deletedSize, deletedCount, deleteErrors,
    sizeCalls,          \* path -> number of dirSize calls made on it
    removeCalls,        \* index -> number of os.RemoveAll calls made on it
    removeOk,           \* the indexes whose os.RemoveAll returned nil
    sizeRecv,           \* path -> number of size results the collector has received for it
    delRecv             \* index -> number of deletion results the collector has received for it

inputs == <<fs, targetsFile, dryRun, skipPrompt, verbose, maxWorkers>>
walkVars == <<targets, walkStack, visited, dirsToDelete, scanErrors>>
sizeVars == <<workChan, workClosed, resultsChan, resultsClosed, sizeWorker,
              totalSize, dirSizes, sizeErrors, sizeCalls, sizeRecv>>
promptVars == <<stdinLine, response>>
delVars == <<deleteWorkChan, deleteWorkClosed, deleteResultsChan, deleteResultsClosed,
             delWorker, deletedSize, deletedCount, deleteErrors, removed,
             removeCalls, removeOk, delRecv>>
vars == <<inputs, pc, sendIdx, walkVars, sizeVars, wg, waiter, promptVars, delVars>>

\* a variant whose loop runs once more (i <= maxWorkers)
PoolSizeOffByOne(w) == IF w >= 0 THEN w + 1 ELSE 0

\* a variant that starts one worker when the flag is not positive
PoolSizeAtLeastOne(w) == IF w > 0 THEN w ELSE 1

\* for i := 0; i < maxWorkers; i++ { wg.Add(1); go func() ... }: the number
\* of goroutines a pool starts; none when the flag is zero or negative
PoolSize(w) == IF w > 0 THEN w ELSE 0

Workers == 1..PoolSize(maxWorkers)
NoWorker == [st |-> "none", item |-> 0]
N == Len(dirsToDelete)

\* the targets files the runs are given
TargetsFiles ==
    { [readable |-> FALSE, scanErr |-> FALSE, lines |-> <<>>],
      [readable |-> TRUE, scanErr |-> TRUE, lines |-> << <<"dist">> >>],
      [readable |-> TRUE, scanErr |-> FALSE, lines |-> << <<"#", "dist">>, <<>> >>],
      [readable |-> TRUE, scanErr |-> FALSE, lines |-> << <<"node_modules">> >>],
      [readable |-> TRUE, scanErr |-> FALSE,
       lines |-> << <<"#", " ", "src">>, <<" ", "node_modules">>, <<"dist", " ">> >>],
      [readable |-> TRUE, scanErr |-> FALSE,
       lines |-> << <<"dist">>, <<"node_modules">>, <<"dist">> >>] }

\* the lines of at most m tokens and the files of at most k such lines
TargetTokens == {" ", "#", "dist"}
LinesUpTo(m) == UNION {[1..j -> TargetTokens] : j \in 0..m}
FilesUpTo(k, m) == UNION {[1..j -> LinesUpTo(m)] : j \in 0..k}

InitRest ==
    /\ removed = {}
    /\ pc = "validate" /\ sendIdx = 0
    /\ targets = <<>> /\ walkStack = <<>> /\ visited = <<>>
    /\ dirsToDelete = <<>> /\ scanErrors = <<>>
    /\ workChan = <<>> /\ workClosed = FALSE
    /\ resultsChan = <<>> /\ resultsClosed = FALSE
    /\ sizeWorker = [w \in Workers |-> NoWorker]
    /\ wg = 0 /\ waiter = "none"
    /\ totalSize = 0 /\ dirSizes = <<>> /\ sizeErrors = <<>>
    /\ stdinLine = <<>> /\ response = <<>>
    /\ deleteWorkChan = <<>> /\ deleteWorkClosed = FALSE
    /\ deleteResultsChan = <<>> /\ deleteResultsClosed = FALSE
    /\ delWorker = [w \in Workers |-> NoWorker]
    /\ deletedSize = 0 /\ deletedCount = 0 /\ deleteErrors = <<>>
    /\ sizeCalls = [i \in 1..fs.n |-> 0]
    /\ removeCalls = <<>> /\ removeOk = {}
    /\ sizeRecv = [i \in 1..fs.n |-> 0] /\ delRecv = <<>>

\* The trees the whole pipeline is run on.
\* the root path is a regular file
FileRoot == [n |-> 1, parent |-> <<0>>, isDir |-> <<FALSE>>, name |-> <<"dist">>, ok |-> <<TRUE>>]

\* src/src (a file): no target directory
NoTargetTree ==
    [n |-> 2, parent |-> <<0, 1>>, isDir |-> <<TRUE, FALSE>>,
     name |-> <<"src", "src">>, ok |-> <<TRUE, TRUE>>]

\* src/node_modules/{src}, src/src/dist/{dist/, src}: a target nested in a target
NestedTree ==
    [n |-> 7, parent |-> <<0, 1, 1, 2, 3, 5, 5>>,
     isDir |-> <<TRUE, TRUE, TRUE, FALSE, TRUE, TRUE, FALSE>>,
     name |-> <<"src", "node_modules", "src", "src", "dist", "dist", "src">>,
     ok |-> <<TRUE, TRUE, TRUE, TRUE, TRUE, TRUE, TRUE>>]

\* src/dist/{src}, src/node_modules/{dist, src}: the file node_modules/src
\* cannot be read
DeniedTree ==
    [n |-> 6, parent |-> <<0, 1, 1, 2, 3, 3>>,
     isDir |-> <<TRUE, TRUE, TRUE, FALSE, FALSE, FALSE>>,
     name |-> <<"src", "dist", "node_modules", "src", "dist", "src">>,
     ok |-> <<TRUE, TRUE, TRUE, TRUE, TRUE, FALSE>>]

\* src/dist/{src}, src/node_modules/{src}, src/src/dist/: three candidates
ThreeTree ==
    [n |-> 7, parent |-> <<0, 1, 1, 1, 2, 4, 3>>,
     isDir |-> <<TRUE, TRUE, TRUE, TRUE, FALSE, TRUE, FALSE>>,
     name |-> <<"src", "dist", "node_modules", "src", "src", "dist", "src">>,
     ok |-> <<TRUE, TRUE, TRUE, TRUE, TRUE, TRUE, TRUE>>]

ExampleTrees == {NoRoot, FileRoot, NoTargetTree, NestedTree, DeniedTree, ThreeTree}

\* a run of the whole program
Init ==
    /\ fs \in ExampleTrees
    /\ targetsFile \in TargetsFiles
    /\ dryRun \in BOOLEAN /\ skipPrompt \in BOOLEAN /\ verbose \in BOOLEAN
    /\ maxWorkers \in (-1)..MaxWorkers
    /\ InitRest

\* src/dist/{src}
OneTargetTree ==
    [n |-> 3, parent |-> <<0, 1, 2>>, isDir |-> <<TRUE, TRUE, FALSE>>,
     name |-> <<"src", "dist", "src">>, ok |-> <<TRUE, TRUE, TRUE>>]

\* a run with -y and one worker on src/dist/{src}, given any targets file
\* of at most MaxLines lines of at most MaxTokens tokens
InitTargets ==
    /\ fs = OneTargetTree
    /\ targetsFile \in
          {[readable |-> FALSE, scanErr |-> FALSE, lines |-> <<>>]} \cup
          {[readable |-> TRUE, scanErr |-> e, lines |-> ls] :
              e \in BOOLEAN, ls \in FilesUpTo(MaxLines, MaxTokens)}
    /\ dryRun = FALSE /\ skipPrompt = TRUE /\ verbose = FALSE
    /\ maxWorkers = 1
    /\ InitRest

\* a run on any tree of at most NumNodes nodes, followed up to the end of the walk
InitWalk ==
    /\ IsTree(fs)
    /\ targetsFile \in TargetsFiles
    /\ dryRun = TRUE /\ skipPrompt = FALSE /\ verbose \in BOOLEAN
    /\ maxWorkers = 1
    /\ InitRest

\* ------------------------------------------------------ main, lines 66-81
\* a variant that refuses no path
RootRefusedNever(t) == FALSE

\* os.Stat(absRoot): only a path that does not exist is refused
RootRefused(t) == t.n = 0

ValidateRoot ==
    /\ pc = "validate"
    /\ pc' = IF RootRefused(fs) THEN "FatalPath" ELSE "readTargets"
    /\ UNCHANGED <<inputs, sendIdx, walkVars, sizeVars, wg, waiter, promptVars, delVars>>

LoadTargets ==
    /\ pc = "readTargets"
    /\ LET r == readTargets(targetsFile)
       IN  IF r.err # "nil"
           THEN /\ pc' = "FatalTargets"
                /\ UNCHANGED <<targets, walkStack>>
           ELSE /\ pc' = "walk"
                /\ targets' = r.targets
                /\ walkStack' = <<1>>
    /\ UNCHANGED <<inputs, sendIdx, visited, dirsToDelete, scanErrors, sizeVars, wg, waiter,
                   promptVars, delVars>>

\* ---------------------------------------- filepath.WalkDir, lines 100-128
\* a variant that records a match and goes on into it
WalkFnNoSkip(t, i, ts) ==
    IF ~t.isDir[i] THEN [found |-> FALSE, ret |-> "nil"]
    ELSE IF Matches(t.name[i], ts) THEN [found |-> TRUE, ret |-> "nil"]
    ELSE [found |-> FALSE, ret |-> "nil"]

\* the callback on entry i when WalkDir passes no error: whether it records
\* the path and what it returns
WalkFn(t, i, ts) ==
    IF ~t.isDir[i] THEN [found |-> FALSE, ret |-> "nil"]
    ELSE IF Matches(t.name[i], ts) THEN [found |-> TRUE, ret |-> "SkipDir"]
    ELSE [found |-> FALSE, ret |-> "nil"]

\* a variant that records the notice whatever the flag
ScanNoticeAlways(errs, i, verb) == Append(errs, i)

\* lines 101-108: the callback is given an error for entry i; the notice is
\* appended only under -v, and the callback returns nil
ScanNotice(errs, i, verb) == IF verb THEN Append(errs, i) ELSE errs

\* one entry of the walk: the callback on it and, unless it is skipped, the
\* listing of the directory (a failed listing calls the callback again,
\* with the error)
WalkDirStep ==
    /\ pc = "walk" /\ walkStack # <<>>
    /\ LET i == Head(walkStack)
           r == WalkFn(fs, i, targets)
           descend == fs.isDir[i] /\ r.ret = "nil"
       IN  /\ visited' = Append(visited, i)
           /\ dirsToDelete' = IF r.found THEN Append(dirsToDelete, i) ELSE dirsToDelete
           /\ scanErrors' = IF descend /\ ~fs.ok[i]
                            THEN ScanNotice(scanErrors, i, verbose) ELSE scanErrors
           /\ walkStack' = IF descend /\ fs.ok[i]
                           THEN SortedSeq(Children(fs, i)) \o Tail(walkStack)
                           ELSE Tail(walkStack)
    /\ UNCHANGED <<inputs, pc, sendIdx, targets, sizeVars, wg, waiter, promptVars, delVars>>

\* a variant that never takes the early return
NoCandidatesNever(dirs) == FALSE

\* line 142: len(dirsToDelete) == 0
NoCandidates(dirs) == Len(dirs) = 0

\* a variant whose Wait never returns
WaitReturnsNever(counter) == FALSE

\* a variant that does not wait for the workers
WaitReturnsAtOnce(counter) == TRUE

\* wg.Wait() returns once the counter is zero
WaitReturns(counter) == counter = 0

\* a variant that leaves the loop as soon as the channel is empty
RangeEndsWhenEmpty(ch, closed) == ch = <<>>

\* a range loop over a channel ends once the channel is closed and drained
RangeEnds(ch, closed) == ch = <<>> /\ closed

\* lines 130-175: the walk has returned; with no candidate the run ends,
\* otherwise the size workers are started
AfterWalk ==
    /\ pc = "walk" /\ walkStack = <<>>
    /\ IF NoCandidates(dirsToDelete)
       THEN /\ pc' = "NoneFound"
            /\ UNCHANGED <<sizeWorker, wg>>
       ELSE /\ pc' = "sizeSend"
            /\ sizeWorker' = [w \in Workers |-> [st |-> "idle", item |-> 0]]
            /\ wg' = PoolSize(maxWorkers)
    /\ UNCHANGED <<inputs, sendIdx, walkVars, workChan, workClosed, resultsChan, resultsClosed,
                   totalSize, dirSizes, sizeErrors, sizeCalls, sizeRecv, waiter,
                   promptVars, delVars>>

\* ------------------------------------------- size phase, lines 153-199
\* lines 178-180: workChan <- dir (the channel holds len(dirsToDelete), so
\* the send never blocks)
SendWork ==
    /\ pc = "sizeSend" /\ sendIdx < N
    /\ workChan' = Append(workChan, dirsToDelete[sendIdx + 1])
    /\ sendIdx' = sendIdx + 1
    /\ UNCHANGED <<inputs, pc, walkVars, workClosed, resultsChan, resultsClosed, sizeWorker,
                   totalSize, dirSizes, sizeErrors, sizeCalls, sizeRecv, wg, waiter,
                   promptVars, delVars>>

\* lines 181-187: close(workChan) and start the goroutine that closes
\* resultsChan once every worker is done
CloseWork ==
    /\ pc = "sizeSend" /\ sendIdx = N
    /\ workClosed' = TRUE
    /\ waiter' = "size"
    /\ pc' = "sizeCollect"
    /\ UNCHANGED <<inputs, sendIdx, walkVars, workChan, resultsChan, resultsClosed, sizeWorker,
                   totalSize, dirSizes, sizeErrors, sizeCalls, sizeRecv, wg,
                   promptVars, delVars>>

\* line 163: a worker receives the next path
SizeWorkerRecv(w) ==
    /\ sizeWorker[w].st = "idle" /\ workChan # <<>>
    /\ sizeWorker' = [sizeWorker EXCEPT ![w] = [st |-> "busy", item |-> Head(workChan)]]
    /\ workChan' = Tail(workChan)
    /\ UNCHANGED <<inputs, pc, sendIdx, walkVars, workClosed, resultsChan, resultsClosed,
                   totalSize, dirSizes, sizeErrors, sizeCalls, sizeRecv, wg, waiter,
                   promptVars, delVars>>

\* a variant with the error test inverted
SizeResultOfInverted(t, path) ==
    LET r == dirSize(t, path)
    IN  IF r.err = "nil" THEN [path |-> path, size |-> 0, err |-> "nil"]
        ELSE [path |-> path, size |-> r.size, err |-> r.err]

\* lines 167-172: the result a worker sends for a path
SizeResultOf(t, path) ==
    LET r == dirSize(t, path)
    IN  IF r.err # "nil" THEN [path |-> path, size |-> 0, err |-> r.err]
        ELSE [path |-> path, size |-> r.size, err |-> "nil"]

SizeWorkerCompute(w) ==
    /\ sizeWorker[w].st = "busy"
    /\ resultsChan' = Append(resultsChan, SizeResultOf(fs, sizeWorker[w].item))
    /\ sizeCalls' = [sizeCalls EXCEPT ![sizeWorker[w].item] = @ + 1]
    /\ sizeWorker' = [sizeWorker EXCEPT ![w] = [st |-> "idle", item |-> 0]]
    /\ UNCHANGED <<inputs, pc, sendIdx, walkVars, workChan, workClosed, resultsClosed,
                   totalSize, dirSizes, sizeErrors, sizeRecv, wg, waiter,
                   promptVars, delVars>>

\* line 163, 162: the range loop ends on the closed, drained channel; wg.Done()
SizeWorkerExit(w) ==
    /\ sizeWorker[w].st = "idle" /\ RangeEnds(workChan, workClosed)
    /\ sizeWorker' = [sizeWorker EXCEPT ![w] = [st |-> "done", item |-> 0]]
    /\ wg' = wg - 1
    /\ UNCHANGED <<inputs, pc, sendIdx, walkVars, workChan, workClosed, resultsChan,
                   resultsClosed, totalSize, dirSizes, sizeErrors, sizeCalls, sizeRecv,
                   waiter, promptVars, delVars>>

\* lines 184-187: wg.Wait(); close(resultsChan)
SizeWaiter ==
    /\ waiter = "size" /\ WaitReturns(wg)
    /\ resultsClosed' = TRUE
    /\ waiter' = "done"
    /\ UNCHANGED <<inputs, pc, sendIdx, walkVars, workChan, workClosed, resultsChan,
                   sizeWorker, totalSize, dirSizes, sizeErrors, sizeCalls, sizeRecv, wg,
                   promptVars, delVars>>

\* lines 190-199: the collector takes one result
CollectSize ==
    /\ pc = "sizeCollect" /\ resultsChan # <<>>
    /\ LET result == Head(resultsChan)
           size == IF result.err # "nil" THEN 0 ELSE result.size
       IN  /\ sizeErrors' = IF result.err # "nil" /\ verbose
                            THEN Append(sizeErrors, result.path) ELSE sizeErrors
           /\ totalSize' = totalSize + size
           /\ dirSizes' = Append(dirSizes, size)
    /\ resultsChan' = Tail(resultsChan)
    /\ sizeRecv' = [sizeRecv EXCEPT ![Head(resultsChan).path] = @ + 1]
    /\ UNCHANGED <<inputs, pc, sendIdx, walkVars, workChan, workClosed, resultsClosed,
                   sizeWorker, sizeCalls, wg, waiter, promptVars, delVars>>

\* lines 242-265: the deletion pool is set up and its workers started
StartDeletion ==
    /\ pc' = "delSend"
    /\ sendIdx' = 0
    /\ wg' = PoolSize(maxWorkers)
    /\ waiter' = "none"
    /\ delWorker' = [w \in Workers |-> [st |-> "idle", item |-> 0]]
    /\ removeCalls' = [k \in 1..N |-> 0]
    /\ delRecv' = [k \in 1..N |-> 0]

\* a variant without the dry-run return
AfterSummaryNoDryRun(dry, skip) ==
    IF ~skip THEN "confirm"
    ELSE "delSend"

\* a variant that goes on to the deletion without asking
AfterSummarySkipsPrompt(dry, skip) == IF dry THEN "DryRunDone" ELSE "delSend"

\* lines 214-219: where main goes after the summary
AfterSummary(dry, skip) ==
    IF dry THEN "DryRunDone"
    ELSE IF ~skip THEN "confirm"
    ELSE "delSend"

\* lines 201-227 up to the prompt: the results channel is closed and
\* drained; summary; a dry run ends here; without -y the prompt is printed
SizeCollected ==
    /\ pc = "sizeCollect" /\ RangeEnds(resultsChan, resultsClosed)
    /\ IF AfterSummary(dryRun, skipPrompt) = "delSend"
       THEN StartDeletion
       ELSE /\ pc' = AfterSummary(dryRun, skipPrompt)
            /\ UNCHANGED <<sendIdx, wg, waiter, delWorker, removeCalls, delRecv>>
    /\ UNCHANGED <<inputs, walkVars, sizeVars, promptVars,
                   deleteWorkChan, deleteWorkClosed, deleteResultsChan, deleteResultsClosed,
                   deletedSize, deletedCount, deleteErrors, removed, removeOk>>

\* ------------------------------------------- the prompt, lines 219-227
\* the characters of a line typed at the prompt
Chars == {"y", "Y", "n", " "}

StdinLines == UNION {[1..k -> Chars] : k \in 0..MaxLineLen}

RECURSIVE Token(_)
\* the characters up to the first blank
Token(l) == IF l = <<>> \/ Head(l) = " " THEN <<>> ELSE <<Head(l)>> \o Token(Tail(l))

\* fmt.Scanln(&response): blanks are skipped and the first word is stored;
\* the error it returns (nothing typed, or more text after the word) is dropped
Scanln(l) == Token(TrimLeft(l))

LowerChar(c) == CASE c = "Y" -> "y" [] c = "N" -> "n" [] OTHER -> c

\* strings.ToLower
ToLower(word) == [k \in 1..Len(word) |-> LowerChar(word[k])]

\* a variant that compares without lowering the case
AffirmativeExact(word) == word = <<"y">>

\* line 223
Affirmative(word) == ToLower(word) = <<"y">>

\* lines 220-222: the prompt is printed and a line is read
Confirm ==
    /\ pc = "confirm"
    /\ \E line \in StdinLines :
          /\ stdinLine' = line
          /\ response' = Scanln(line)
    /\ pc' = "checkResponse"
    /\ UNCHANGED <<inputs, sendIdx, walkVars, sizeVars, wg, waiter, delVars>>

\* lines 223-227 (and 229-265 when the answer is y): response goes out of scope
CheckResponse ==
    /\ pc = "checkResponse"
    /\ IF ~Affirmative(response)
       THEN /\ pc' = "Cancelled"
            /\ UNCHANGED <<sendIdx, wg, waiter, delWorker, removeCalls, delRecv>>
       ELSE StartDeletion
    /\ stdinLine' = <<>> /\ response' = <<>>
    /\ UNCHANGED <<inputs, walkVars, sizeVars,
                   deleteWorkChan, deleteWorkClosed, deleteResultsChan, deleteResultsClosed,
                   deletedSize, deletedCount, deleteErrors, removed, removeOk>>

\* --------------------------------------- deletion phase, lines 242-291
\* lines 268-270: deleteWorkChan <- i
SendDeleteWork ==
    /\ pc = "delSend" /\ sendIdx < N
    /\ deleteWorkChan' = Append(deleteWorkChan, sendIdx + 1)
    /\ sendIdx' = sendIdx + 1
    /\ UNCHANGED <<inputs, pc, walkVars, sizeVars, wg, waiter, promptVars,
                   deleteWorkClosed, deleteResultsChan, deleteResultsClosed,
                   delWorker, deletedSize, deletedCount, deleteErrors, removed,
                   removeCalls, removeOk, delRecv>>

\* lines 271-277
CloseDeleteWork ==
    /\ pc = "delSend" /\ sendIdx = N
    /\ deleteWorkClosed' = TRUE
    /\ waiter' = "delete"
    /\ pc' = "delCollect"
    /\ UNCHANGED <<inputs, sendIdx, walkVars, sizeVars, wg, promptVars,
                   deleteWorkChan, deleteResultsChan, deleteResultsClosed,
                   delWorker, deletedSize, deletedCount, deleteErrors, removed,
                   removeCalls, removeOk, delRecv>>

\* line 252: a worker receives the next index
DeleteWorkerRecv(w) ==
    /\ delWorker[w].st = "idle" /\ deleteWorkChan # <<>>
    /\ delWorker' = [delWorker EXCEPT ![w] = [st |-> "busy", item |-> Head(deleteWorkChan)]]
    /\ deleteWorkChan' = Tail(deleteWorkChan)
    /\ UNCHANGED <<inputs, pc, sendIdx, walkVars, sizeVars, wg, waiter, promptVars,
                   deleteWorkClosed, deleteResultsChan, deleteResultsClosed,
                   deletedSize, deletedCount, deleteErrors, removed,
                   removeCalls, removeOk, delRecv>>

\* a variant that drops the error of os.RemoveAll
DeleteResultOfNoErr(index, err) == [index |-> index, err |-> "nil"]

\* lines 258-262: the result a worker sends for an index
DeleteResultOf(index, err) == [index |-> index, err |-> err]

\* lines 253-262: os.RemoveAll(dir) returns nil, and the directory and all
\* beneath it are gone, or it returns an error (the tree is then left as it was)
DeleteWorkerRemove(w) ==
    /\ delWorker[w].st = "busy"
    /\ LET index == delWorker[w].item
           dir == dirsToDelete[index]
       IN  \E err \in {"nil", "EACCES"} :
              /\ removed' = IF err = "nil" THEN removed \cup Subtree(fs, dir) ELSE removed
              /\ removeOk' = IF err = "nil" THEN removeOk \cup {index} ELSE removeOk
              /\ removeCalls' = [removeCalls EXCEPT ![index] = @ + 1]
              /\ deleteResultsChan' = Append(deleteResultsChan, DeleteResultOf(index, err))
    /\ delWorker' = [delWorker EXCEPT ![w] = [st |-> "idle", item |-> 0]]
    /\ UNCHANGED <<inputs, pc, sendIdx, walkVars, sizeVars, wg, waiter, promptVars,
                   deleteWorkChan, deleteWorkClosed, deleteResultsClosed,
                   deletedSize, deletedCount, deleteErrors, delRecv>>

\* lines 252, 251: the range loop ends; wg.Done()
DeleteWorkerExit(w) ==
    /\ delWorker[w].st = "idle" /\ RangeEnds(deleteWorkChan, deleteWorkClosed)
    /\ delWorker' = [delWorker EXCEPT ![w] = [st |-> "done", item |-> 0]]
    /\ wg' = wg - 1
    /\ UNCHANGED <<inputs, pc, sendIdx, walkVars, sizeVars, waiter, promptVars,
                   deleteWorkChan, deleteWorkClosed, deleteResultsChan, deleteResultsClosed,
                   deletedSize, deletedCount, deleteErrors, removed,
                   removeCalls, removeOk, delRecv>>

\* lines 274-277: wg.Wait(); close(deleteResultsChan)
DeleteWaiter ==
    /\ waiter = "delete" /\ WaitReturns(wg)
    /\ deleteResultsClosed' = TRUE
    /\ waiter' = "done"
    /\ UNCHANGED <<inputs, pc, sendIdx, walkVars, sizeVars, wg, promptVars,
                   deleteWorkChan, deleteWorkClosed, deleteResultsChan,
                   delWorker, deletedSize, deletedCount, deleteErrors, removed,
                   removeCalls, removeOk, delRecv>>

\* lines 280-291: the collector takes one result; dirSizes[result.index]
\* with an index past the end of the slice panics, which ends the program
CollectDelete ==
    /\ pc = "delCollect" /\ deleteResultsChan # <<>>
    /\ LET result == Head(deleteResultsChan)
       IN  IF result.err # "nil"
           THEN /\ deleteErrors' = Append(deleteErrors, dirsToDelete[result.index])
                /\ UNCHANGED <<deletedCount, deletedSize, pc>>
           ELSE IF result.index \in 1..Len(dirSizes)
           THEN /\ deletedCount' = deletedCount + 1
                /\ deletedSize' = deletedSize + dirSizes[result.index]
                /\ UNCHANGED <<deleteErrors, pc>>
           ELSE /\ deletedCount' = deletedCount + 1
                /\ pc' = "Panic"
                /\ UNCHANGED <<deleteErrors, deletedSize>>
    /\ deleteResultsChan' = Tail(deleteResultsChan)
    /\ delRecv' = [delRecv EXCEPT ![Head(deleteResultsChan).index] = @ + 1]
    /\ UNCHANGED <<inputs, sendIdx, walkVars, sizeVars, wg, waiter, promptVars,
                   deleteWorkChan, deleteWorkClosed, deleteResultsClosed,
                   delWorker, removed, removeCalls, removeOk>>

\* lines 293-310: the final report
Report ==
    /\ pc = "delCollect" /\ RangeEnds(deleteResultsChan, deleteResultsClosed)
    /\ pc' = "Reported"
    /\ UNCHANGED <<inputs, sendIdx, walkVars, sizeVars, wg, waiter, promptVars, delVars>>

Terminal == pc \in {"FatalPath", "FatalTargets", "NoneFound", "DryRunDone", "Cancelled",
                    "Reported", "Panic"}

Next ==
    \/ ValidateRoot
    \/ LoadTargets
    \/ WalkDirStep
    \/ AfterWalk
    \/ SendWork
    \/ CloseWork
    \/ \E w \in Workers : SizeWorkerRecv(w)
    \/ \E w \in Workers : SizeWorkerCompute(w)
    \/ \E w \in Workers : SizeWorkerExit(w)
    \/ SizeWaiter
    \/ CollectSize
    \/ SizeCollected
    \/ Confirm
    \/ CheckResponse
    \/ SendDeleteWork
    \/ CloseDeleteWork
    \/ \E w \in Workers : DeleteWorkerRecv(w)
    \/ \E w \in Workers : DeleteWorkerRemove(w)
    \/ \E w \in Workers : DeleteWorkerExit(w)
    \/ DeleteWaiter
    \/ CollectDelete
    \/ Report

Spec == Init /\ [][Next]_vars

\* the same runs when a step is taken whenever one is possible: a goroutine
\* that can run is run, os.RemoveAll, the walks and the read of the answer
\* return
SpecLive == Init /\ [][Next]_vars /\ WF_vars(Next)

\* main up to the end of the walk
NextWalk ==
    \/ ValidateRoot
    \/ LoadTargets
    \/ WalkDirStep
    \/ AfterWalk

SpecWalk == InitWalk /\ [][NextWalk]_vars

\* main with -y: the prompt is never shown
NextTargets ==
    \/ ValidateRoot
    \/ LoadTargets
    \/ WalkDirStep
    \/ AfterWalk
    \/ SendWork
    \/ CloseWork
    \/ \E w \in Workers : SizeWorkerRecv(w)
    \/ \E w \in Workers : SizeWorkerCompute(w)
    \/ \E w \in Workers : SizeWorkerExit(w)
    \/ SizeWaiter
    \/ CollectSize
    \/ SizeCollected
    \/ SendDeleteWork
    \/ CloseDeleteWork
    \/ \E w \in Workers : DeleteWorkerRecv(w)
    \/ \E w \in Workers : DeleteWorkerRemove(w)
    \/ \E w \in Workers : DeleteWorkerExit(w)
    \/ DeleteWaiter
    \/ CollectDelete
    \/ Report

SpecTargets == InitTargets /\ [][NextTargets]_vars

\* ================================================================ claims
WalkOver == pc \notin {"validate", "readTargets", "walk", "FatalPath", "FatalTargets"}

SizePhaseOver == pc \in {"DryRunDone", "confirm", "checkResponse", "Cancelled",
                         "delSend", "delCollect", "Reported", "Panic"}

Candidates == {dirsToDelete[k] : k \in 1..N}

\* the sum of f over the set s
RECURSIVE SetSum(_, _)
SetSum(f, s) ==
    IF s = {} THEN 0
    ELSE LET x == CHOOSE y \in s : TRUE IN f[x] + SetSum(f, s \ {x})

\* the size dirSize computes for the candidate at position k
ComputedSize(k) == dirSize(fs, dirsToDelete[k]).size

\* C1: after a confirmed run with at least one worker, the bytes freed are
\* the sum of the sizes computed for exactly the candidates whose removal
\* reported success.
C1_FreedIsSumOfDeleted ==
    (pc = "Reported" /\ maxWorkers >= 1) =>
        deletedSize = SetSum([k \in 1..N |-> ComputedSize(k)], removeOk)

\* C2: once the size phase is over, dirSizes[i] is the size computed for
\* dirsToDelete[i], for every i, whatever the order the results arrived in.
C2_SizesPairedByIndex ==
    (SizePhaseOver /\ maxWorkers >= 1) =>
        /\ Len(dirSizes) = N
        /\ \A i \in 1..N : dirSizes[i] = ComputedSize(i)

ProperAncestors(t, d) == {a \in 1..t.n : a # d /\ IsUnder(t, d, a)}

TargetNames == {targets[k][1] : k \in {j \in 1..Len(targets) : Len(targets[j]) = 1}}

IsTargetDir(i) == fs.isDir[i] /\ fs.name[i] \in TargetNames

\* the target directories that can be reached from the root through
\* listable directories and have no target directory above them
OutermostTargets ==
    {d \in 1..fs.n : /\ IsTargetDir(d)
                     /\ \A a \in ProperAncestors(fs, d) : fs.ok[a] /\ ~IsTargetDir(a)}

\* C3: the walk records exactly once every reachable target directory that
\* has no target directory above it, and no candidate lies beneath another.
C3_WalkRecordsOutermostTargets ==
    WalkOver =>
        /\ Candidates = OutermostTargets
        /\ Cardinality(Candidates) = N
        /\ \A j, k \in 1..N : j # k => ~IsUnder(fs, dirsToDelete[j], dirsToDelete[k])

\* two candidates, and a target directory inside one of them left out
C3_Witness ==
    /\ pc = "sizeSend" /\ N = 2
    /\ \E d \in 1..fs.n : /\ IsTargetDir(d) /\ d \notin Candidates
                          /\ \E a \in ProperAncestors(fs, d) : a \in Candidates

\* C4: in a dry run nothing is ever removed and the run never goes past
\* the summary: no prompt, no deletion worker, no os.RemoveAll.
C4_DryRunRemovesNothing ==
    dryRun =>
        /\ removed = {}
        /\ removeCalls = <<>>
        /\ pc \notin {"confirm", "checkResponse", "Cancelled", "delSend", "delCollect",
                      "Reported", "Panic"}

C4_Witness == pc = "DryRunDone" /\ skipPrompt /\ N >= 2 /\ maxWorkers = MaxWorkers

\* the line holds y or Y as its first word: only blanks before it, and the
\* end of the line or a blank after it
FirstWordIsY(l) ==
    \E i \in 1..Len(l) :
        /\ l[i] \in {"y", "Y"}
        /\ \A j \in 1..(i - 1) : l[j] = " "
        /\ i = Len(l) \/ l[i + 1] = " "

\* C5 as stated: without -y, deletion starts only when the answer (blanks
\* around it aside) is y or Y, and any other answer cancels the run.
C5_OnlyYConfirms ==
    [][pc = "checkResponse" =>
          IF TrimSpace(stdinLine) \in {<<"y">>, <<"Y">>}
          THEN pc' = "delSend"
          ELSE pc' = "Cancelled" /\ removed' = {}]_vars

\* C5, amended: without -y, deletion starts only from the prompt, and only
\* when the first word of the answer is y or Y (blanks before it and any
\* text after a blank are ignored); every other answer, the empty one
\* included, cancels the run with nothing removed.
C5_FirstWordYConfirms ==
    [][/\ pc = "checkResponse" =>
             IF FirstWordIsY(stdinLine)
             THEN pc' = "delSend"
             ELSE pc' = "Cancelled" /\ removed' = {}
       /\ (pc' = "delSend" /\ pc # "delSend" /\ ~skipPrompt) => pc = "checkResponse"
       /\ pc = "Cancelled" => removed = {}]_vars

\* an answer of three characters whose first word is y has been read
C5_Witness ==
    /\ pc = "checkResponse" /\ ~skipPrompt
    /\ Len(stdinLine) = MaxLineLen /\ FirstWordIsY(stdinLine)
    /\ stdinLine[Len(stdinLine)] = "n"

\* C6: when the walk finds no candidate the run ends at once: no size
\* worker, no prompt, no deletion, whatever -dry-run and -y say.
C6_NoCandidateEndsRun ==
    (WalkOver /\ N = 0) =>
        /\ pc = "NoneFound"
        /\ workChan = <<>> /\ ~workClosed /\ wg = 0 /\ waiter = "none"
        /\ \A w \in Workers : sizeWorker[w].st = "none" /\ delWorker[w].st = "none"
        /\ stdinLine = <<>> /\ removed = {} /\ removeCalls = <<>>

C6_Witness == pc = "NoneFound" /\ ~dryRun /\ skipPrompt /\ maxWorkers >= 1 /\ fs.isDir[1]

\* C7: with at least one worker each pool processes every item exactly
\* once and its collector receives exactly one result per item.
C7_EveryItemOnce ==
    /\ \A i \in 1..fs.n : sizeCalls[i] <= 1 /\ sizeRecv[i] <= sizeCalls[i]
    /\ \A k \in DOMAIN removeCalls : removeCalls[k] <= 1 /\ delRecv[k] <= removeCalls[k]
    /\ (SizePhaseOver /\ maxWorkers >= 1) =>
          /\ \A i \in 1..fs.n :
                /\ sizeCalls[i] = IF i \in Candidates THEN 1 ELSE 0
                /\ sizeRecv[i] = sizeCalls[i]
          /\ Len(dirSizes) = N
    /\ (pc = "Reported" /\ maxWorkers >= 1) =>
          \A k \in 1..N : removeCalls[k] = 1 /\ delRecv[k] = 1

C7_Witness ==
    /\ pc = "Reported" /\ maxWorkers = MaxWorkers /\ N = 3
    /\ removeOk # {} /\ deleteErrors # <<>>

\* C8: a failed removal stops nothing: with at least one worker, when the
\* final report is reached os.RemoveAll has been called on every candidate
\* and every outcome has been counted, as a deletion or as a failure.
C8_FailureSkipsNothing ==
    (pc = "Reported" /\ maxWorkers >= 1) =>
        /\ \A k \in 1..N : removeCalls[k] = 1
        /\ deletedCount = Cardinality(removeOk)
        /\ Len(deleteErrors) = N - Cardinality(removeOk)
        /\ {deleteErrors[j] : j \in 1..Len(deleteErrors)}
              = {dirsToDelete[k] : k \in (1..N) \ removeOk}
        /\ \A k \in removeOk : Subtree(fs, dirsToDelete[k]) \subseteq removed

\* a removal failed and a removal succeeded
C8_Witness ==
    /\ pc = "Reported" /\ N >= 2
    /\ 1 \notin removeOk /\ removeOk # {}

RootIsDir == fs.n >= 1 /\ fs.isDir[1]

\* C9 as stated: a root path that does not exist, or is not a directory,
\* ends the run before the targets are loaded.
C9_BadRootFailsFast ==
    ~RootIsDir => pc \in {"validate", "FatalPath"}

\* C9, amended: a root path that does not exist ends the run before the
\* targets are loaded or anything is walked; a root path that exists and is
\* not a directory is accepted, and the walk then visits it alone and finds
\* no candidate.
C9_MissingRootFailsFast ==
    /\ fs.n = 0 => /\ pc \in {"validate", "FatalPath"}
                   /\ targets = <<>> /\ visited = <<>>
    /\ (fs.n >= 1 /\ ~fs.isDir[1]) =>
          /\ pc # "FatalPath"
          /\ N = 0
          /\ WalkOver => (pc = "NoneFound" /\ visited = <<1>>)

C9_Witness == pc = "FatalPath" /\ fs.n = 0

\* the files beneath c that can be reached through listable directories and read
AccessibleFiles(t, c) ==
    {f \in 1..t.n : /\ ~t.isDir[f] /\ t.ok[f] /\ IsUnder(t, f, c)
                    /\ \A a \in 1..t.n : (a # f /\ IsUnder(t, f, a) /\ IsUnder(t, a, c)) => t.ok[a]}

\* an entry beneath c that cannot be listed or read
HasInaccessibleEntry(t, c) == \E x \in Subtree(t, c) : ~t.ok[x]

\* C10: a candidate with an inaccessible entry gets the sum of its
\* accessible files as its size, a size-error notice (collected under -v),
\* and is still handed to the deletion workers.
C10_InaccessibleEntryIsNoticed ==
    \A k \in 1..N : HasInaccessibleEntry(fs, dirsToDelete[k]) =>
        /\ ComputedSize(k) = SetSum([f \in 1..fs.n |-> FileSize(f)],
                                    AccessibleFiles(fs, dirsToDelete[k]))
        /\ (SizePhaseOver /\ maxWorkers >= 1 /\ verbose) =>
              \E j \in 1..Len(sizeErrors) : sizeErrors[j] = dirsToDelete[k]
        /\ (pc = "Reported" /\ maxWorkers >= 1) => removeCalls[k] = 1

\* the entries the walk can get to: every directory above them can be
\* listed and is not a target
Reachable ==
    {x \in 1..fs.n : \A a \in ProperAncestors(fs, x) : fs.ok[a] /\ ~IsTargetDir(a)}

\* the directories whose listing fails during the walk
AccessErrors == {d \in Reachable : fs.isDir[d] /\ ~fs.ok[d] /\ ~IsTargetDir(d)}

SeqSet(q) == {q[j] : j \in 1..Len(q)}

\* C11: every path the walk fails to access has a scan notice once the walk
\* is over, whether or not -v is given.
C11_AccessErrorIsNoticed ==
    WalkOver => \A d \in AccessErrors : d \in SeqSet(scanErrors)

\* C11, amended: in every configuration the walk skips what lies beneath a
\* path it cannot access and visits every other reachable entry exactly
\* once; a scan notice for the path is recorded exactly when -v is given.
C11_AccessErrorIsSkipped ==
    WalkOver =>
        /\ SeqSet(visited) = Reachable
        /\ Len(visited) = Cardinality(Reachable)
        /\ SeqSet(scanErrors) = (IF verbose THEN AccessErrors ELSE {})
        /\ Len(scanErrors) = Cardinality(SeqSet(scanErrors))

C11_Witness ==
    /\ WalkOver /\ ~verbose /\ scanErrors = <<>>
    /\ \E j \in 1..Len(visited) :
          /\ visited[j] \in AccessErrors
          /\ \E x \in 1..fs.n : IsUnder(fs, x, visited[j]) /\ x # visited[j]
          /\ \E k \in (j + 1)..Len(visited) : visited[k] \in Candidates

\* every line of the file is blank or has "#" as its first non-blank token
NoValidName(f) ==
    \A j \in 1..Len(f.lines) :
        LET l == f.lines[j]
        IN  \A q \in 1..Len(l) :
                (l[q] # " " /\ \A b \in 1..(q - 1) : l[b] = " ") => l[q] = "#"

\* the targets file cannot be opened or read through, or names nothing
TargetsUnusable(f) == ~f.readable \/ f.scanErr \/ NoValidName(f)

\* C12: with a targets file that cannot be read or holds no valid name the
\* run never gets past the loading of the targets: nothing is walked, no
\* candidate is recorded, no worker is started and nothing is removed.
C12_BadTargetsAbortBeforeWalk ==
    TargetsUnusable(targetsFile) =>
        /\ pc \in {"validate", "FatalPath", "readTargets", "FatalTargets"}
        /\ targets = <<>> /\ walkStack = <<>> /\ visited = <<>>
        /\ dirsToDelete = <<>>
        /\ \A i \in 1..fs.n : sizeCalls[i] = 0
        /\ removeCalls = <<>> /\ removed = {}

C12_Witness ==
    /\ pc = "FatalTargets"
    /\ targetsFile.readable /\ ~targetsFile.scanErr
    /\ Len(targetsFile.lines) = MaxLines
    /\ \E j \in 1..MaxLines : targetsFile.lines[j] = <<"#", "dist">>
    /\ \E j \in 1..MaxLines : targetsFile.lines[j] = <<" ", "#">>

\* C13: when the root is a directory whose own name is a target, the walk
\* records the root as the only candidate and visits nothing else.
C13_TargetRootIsSingleCandidate ==
    (WalkOver /\ IsTargetDir(1)) =>
        /\ dirsToDelete = <<1>>
        /\ visited = <<1>>
        /\ scanErrors = <<>>

C13_Witness ==
    /\ pc = "sizeSend" /\ fs.n = NumNodes /\ IsTargetDir(1)
    /\ \E d \in 2..fs.n : IsTargetDir(d) /\ fs.name[d] # fs.name[1]
    /\ Len(targets) >= 2

\* C14: a run that has loaded its targets and started the walk ends in
\* NoneFound, DryRunDone, Cancelled or Reported, whatever the interleaving
\* of the senders, the workers, the closing goroutines and the collectors
\* and whatever sizes and removals fail.
C14_ValidRunTerminates ==
    (pc = "walk") ~> (pc \in {"NoneFound", "DryRunDone", "Cancelled", "Reported"})

C14_Witness ==
    /\ pc = "Reported" /\ ~skipPrompt /\ maxWorkers = MaxWorkers
    /\ N >= 2 /\ removeOk = {} /\ Len(deleteErrors) = N
    /\ \E k \in 1..N : HasInaccessibleEntry(fs, dirsToDelete[k])

\* the goroutines that hold an item: received from the work channel and
\* not yet answered
SizeInFlight == {w \in DOMAIN sizeWorker : sizeWorker[w].st = "busy"}
DelInFlight == {w \in DOMAIN delWorker : delWorker[w].st = "busy"}

\* C15: in every state at most -workers items are being sized and at most
\* -workers items are being removed (none when the flag is not positive).
C15_AtMostWInFlight ==
    LET W == IF maxWorkers > 0 THEN maxWorkers ELSE 0
    IN  /\ Cardinality(SizeInFlight) <= W
        /\ Cardinality(DelInFlight) <= W
        /\ Cardinality({w \in DOMAIN sizeWorker : sizeWorker[w].st # "none"}) <= W
        /\ Cardinality({w \in DOMAIN delWorker : delWorker[w].st # "none"}) <= W

\* every worker holds an item while another item waits in the channel
C15_Witness ==
    /\ maxWorkers = MaxWorkers
    /\ Cardinality(DelInFlight) = maxWorkers
    /\ deleteWorkChan # <<>>
    /\ sizeCalls # [i \in 1..fs.n |-> 0]

\* main is in the deletion part of the program
InDeletion == pc \in {"delSend", "delCollect", "Reported", "Panic"}

\* a deletion worker exists, an item has been handed out or removed
DeletionBegun ==
    \/ \E w \in DOMAIN delWorker : delWorker[w].st # "none"
    \/ \E k \in DOMAIN removeCalls : removeCalls[k] > 0
    \/ deleteWorkChan # <<>> \/ deleteResultsChan # <<>> \/ removed # {}

\* the walk has returned, every size worker has left its loop and every
\* size result has been taken by the collector
SizingFinished ==
    /\ WalkOver /\ walkStack = <<>>
    /\ \A w \in DOMAIN sizeWorker : sizeWorker[w].st = "done"
    /\ workClosed /\ resultsClosed /\ resultsChan = <<>>
    /\ \A i \in 1..fs.n : sizeRecv[i] = sizeCalls[i]
    /\ maxWorkers >= 1 => (workChan = <<>> /\ Len(dirSizes) = N)

\* C16: the phases come in order. Nothing of the deletion exists before
\* main is past the summary with the sizing finished; main enters the
\* deletion from the summary under -y and otherwise only from the check of
\* an answer read at the prompt, which is shown only after the summary;
\* once the walk is over the candidate list never changes.
C16_PhasesInOrder ==
    [][ /\ WalkOver => (dirsToDelete' = dirsToDelete /\ visited' = visited)
        /\ DeletionBegun' => InDeletion'
        /\ InDeletion' => SizingFinished'
        /\ (InDeletion' /\ ~InDeletion) =>
              IF skipPrompt THEN pc = "sizeCollect"
              ELSE pc = "checkResponse" /\ response # <<>>
        /\ (pc' = "checkResponse" /\ pc # "checkResponse") => pc = "confirm"
        /\ (pc' = "confirm" /\ pc # "confirm") => (pc = "sizeCollect" /\ SizingFinished)
      ]_vars

C16_Witness ==
    /\ ~skipPrompt /\ maxWorkers = MaxWorkers /\ N >= 2
    /\ DelInFlight # {} /\ removed # {}
    /\ sizeErrors = <<>> /\ pc = "delSend"

\* C17: with at least one worker the total of the summary is the sum of
\* the sizes dirSize computes for the candidates, in whatever order the
\* results arrived; while results are still arriving it is the sum over
\* the candidates whose result has been collected.
C17_TotalIsSumOfSizes ==
    /\ totalSize = SetSum([i \in 1..fs.n |-> dirSize(fs, i).size],
                          {i \in 1..fs.n : sizeRecv[i] > 0})
    /\ (SizePhaseOver /\ maxWorkers >= 1) =>
          totalSize = SetSum([k \in 1..N |-> ComputedSize(k)], 1..N)

\* the summary of a run whose results arrived out of candidate order
C17_Witness ==
    /\ pc = "confirm" /\ maxWorkers = MaxWorkers /\ N >= 2
    /\ dirSizes[1] # ComputedSize(1)
    /\ totalSize > ComputedSize(1) /\ totalSize > ComputedSize(2)

\* the number of deletion results the collector has taken
DelCollected == SetSum(delRecv, DOMAIN delRecv)

\* C18: the deleted count and the failure list together count every
\* collected deletion result once; at the final report of a run with at
\* least one worker they add up to N, the candidates whose removal
\* succeeded being the deleted ones and each other candidate being listed
\* once as a failure.
C18_DeletedPlusFailedIsN ==
    /\ deletedCount + Len(deleteErrors) = DelCollected
    /\ Len(deleteErrors) = Cardinality(SeqSet(deleteErrors))
    /\ (pc = "Reported" /\ maxWorkers >= 1) =>
          /\ deletedCount + Len(deleteErrors) = N
          /\ deletedCount = Cardinality(removeOk)
          /\ \A k \in 1..N :
                (k \in removeOk) <=> (dirsToDelete[k] \notin SeqSet(deleteErrors))

C18_Witness ==
    /\ pc = "Reported" /\ maxWorkers = 1 /\ N = 3
    /\ deletedCount = 2 /\ deleteErrors = <<dirsToDelete[2]>>

\* C19: dirSizes[result.index] never panics: every index in a deletion
\* result, and every index a deletion worker holds, is a position of
\* dirSizes, and dirSizes has one entry per candidate as soon as a deletion
\* worker exists.
C19_IndexWithinDirSizes ==
    /\ pc # "Panic"
    /\ \A j \in 1..Len(deleteResultsChan) :
          deleteResultsChan[j].index \in 1..Len(dirSizes)
    /\ \A w \in DelInFlight : delWorker[w].item \in 1..Len(dirSizes)
    /\ (\E w \in DOMAIN delWorker : delWorker[w].st # "none") => Len(dirSizes) = N

\* the collector is about to look up the size of the last candidate
C19_Witness ==
    /\ pc = "delCollect" /\ N = 3 /\ deleteResultsChan # <<>>
    /\ Head(deleteResultsChan).index = N
    /\ Head(deleteResultsChan).err = "nil"

\* no goroutine of either pool exists, nothing was sized or removed, and
\* every total is zero
NothingDone ==
    /\ \A w \in DOMAIN sizeWorker : sizeWorker[w].st = "none"
    /\ \A w \in DOMAIN delWorker : delWorker[w].st = "none"
    /\ \A i \in 1..fs.n : sizeCalls[i] = 0 /\ sizeRecv[i] = 0
    /\ \A k \in DOMAIN removeCalls : removeCalls[k] = 0
    /\ removed = {} /\ removeOk = {}
    /\ totalSize = 0 /\ dirSizes = <<>> /\ sizeErrors = <<>>
    /\ deletedCount = 0 /\ deletedSize = 0 /\ deleteErrors = <<>>
    /\ pc # "Panic"

\* C20: with -workers zero or negative no worker is started, no size is
\* computed and nothing is removed; the run still ends, and a run that
\* enters the deletion ends in the final report with 0 of N deleted.
C20_NoWorkerDoesNothing ==
    /\ [](maxWorkers <= 0 => NothingDone)
    /\ (maxWorkers <= 0 /\ pc = "walk")
          ~> (pc \in {"NoneFound", "DryRunDone", "Cancelled", "Reported"})
    /\ (maxWorkers <= 0 /\ pc = "delSend")
          ~> (pc = "Reported" /\ N > 0 /\ deletedCount = 0 /\ totalSize = 0)

C20_Witness ==
    /\ pc = "Reported" /\ maxWorkers < 0 /\ ~skipPrompt
    /\ N >= 2 /\ Len(workChan) = N /\ Len(deleteWorkChan) = N
    /\ deletedCount = 0

====
